---- MODULE Spec2Model ----
(***************************************************************************)
(* Model of brainiak_utils.py: the double-gamma HRF synthesizer            *)
(* (_double_gamma_hrf) and the convolution / downsampler (convolve_hrf).   *)
(*                                                                         *)
(* Numbers.  The source's floats are modelled by exact arithmetic:         *)
(*   - temporal_resolution is a rational [num, den] (samples per second);  *)
(*   - tr_duration is a whole number of seconds;                           *)
(*   - HRF amplitudes are integers in units of 10^-6 (the transcendental   *)
(*     factors pow * exp of lines 51-64 are tabulated at whole seconds,    *)
(*     rounded to that unit);                                              *)
(*   - an entry of the returned matrix is a fraction <<n, d>>: n / d.      *)
(*     <<0, 0>> is not-a-number and <<n, 0>>, n # 0, is infinite, as       *)
(*     numpy yields for a division by zero.                                *)
(* A stimulus matrix is held as the sequence of its columns, so            *)
(* stimfunction[c][r] is the source's stimfunction[r-1, c-1].              *)
(***************************************************************************)
EXTENDS Integers, Sequences, FiniteSets, TLC

VARIABLES
    call,                \* which entry point is being called
    stimfunction,        \* argument of convolve_hrf
    tr_duration,         \* argument of convolve_hrf
    hrf_type,            \* argument of convolve_hrf
    scale_function,      \* argument of convolve_hrf
    temporal_resolution, \* argument of convolve_hrf
    synth_args,          \* arguments of the running _double_gamma_hrf call
    pc,                  \* position in the code
    raised,              \* the exception that ended the call, or "none"
    log,                 \* warnings emitted through the logger
    stride,              \* local of convolve_hrf
    duration,            \* local of convolve_hrf
    hrf,                 \* local of convolve_hrf
    hrf_bound,           \* whether convolve_hrf's local hrf has been assigned
    synth_hrf,           \* local hrf of _double_gamma_hrf
    hrf_counter,         \* loop variable of _double_gamma_hrf
    hrf_writes,          \* how often each index of synth_hrf was assigned
    list_counter,        \* loop variable of convolve_hrf
    signal_function,     \* local of convolve_hrf: the sequence of its columns
    signal_bound         \* whether signal_function has been assigned

vars == <<call, stimfunction, tr_duration, hrf_type, scale_function,
          temporal_resolution, synth_args, pc, raised, log, stride, duration,
          hrf, hrf_bound, synth_hrf, hrf_counter, hrf_writes, list_counter,
          signal_function, signal_bound>>

(***************************************************************************)
(* Bounds of the model.                                                    *)
(***************************************************************************)
MaxRows == 3
MaxCols == 2

(***************************************************************************)
(* Small helpers.                                                          *)
(***************************************************************************)
Min(a, b) == IF a < b THEN a ELSE b

RECURSIVE SeqMax(_)
\* np.max of a non-empty vector
SeqMax(s) ==
    IF Len(s) = 1 THEN s[1]
    ELSE LET m == SeqMax(Tail(s)) IN IF s[1] > m THEN s[1] ELSE m

Abs(x) == IF x < 0 THEN -x ELSE x

(***************************************************************************)
(* _double_gamma_hrf                                                       *)
(***************************************************************************)
hrf_length == 30

\* 10^6 * pow(t / response_peak, response_delay)
\*      * exp(-(t - response_peak) / response_dispersion)
\* for response_delay = 6, response_dispersion = 0.9, at t = 0 .. 29 seconds
RespPowExp ==
    <<0, 5356, 112846, 423140, 782648, 982827, 966085, 801949, 588232, 392568,
      243170, 141813, 78686, 41872, 21502, 10708, 5192, 2459, 1141, 519,
      233, 103, 45, 19, 8, 3, 1, 1, 0, 0>>

\* 10^6 * pow(t / undershoot_peak, undershoot_delay)
\*      * exp(-(t - undershoot_peak / undershoot_dispersion))
\* for undershoot_delay = 12, undershoot_dispersion = 0.9, at t = 0 .. 29
UndershootPowExp ==
    <<0, 0, 36, 1710, 19861, 106320, 348736, 815763, 1489953, 2252727,
      2934296, 3387830, 3540706, 3403617, 3046929, 2565232, 2047278, 1558941,
      1138723, 801488, 545656, 360492, 231762, 145348, 89108, 53502, 31512,
      18233, 10378, 5817>>

\* The defaults of the signature; undershoot_scale is in thousandths.
DefaultArgs(res) ==
    [response_scale |-> 1, undershoot_scale |-> 35, temporal_resolution |-> res]

NoArgs ==
    [response_scale |-> 0, undershoot_scale |-> 0,
     temporal_resolution |-> [num |-> 0, den |-> 1]]

\* int(hrf_length * temporal_resolution)
HrfLen(res) == (hrf_length * res.num) \div res.den

\* hrf_counter / temporal_resolution, in seconds
HrfTime(i, res) == (i * res.den) \div res.num

\* response_model - undershoot_model at index i (0-based)
HrfValue(a, i) ==
    LET t == HrfTime(i, a.temporal_resolution)
        response_model == a.response_scale * RespPowExp[t + 1]
        undershoot_model == (a.undershoot_scale * UndershootPowExp[t + 1]) \div 1000
    IN  response_model - undershoot_model

\* as HrfLoopRange, had the loop run over range(len(hrf))
HrfLoopRangeWhole(n) == 0 .. (n - 1)

\* the indices the loop visits: list(range(len(hrf) - 1))
HrfLoopRange(n) == 0 .. (n - 2)

\* The value _double_gamma_hrf returns for arguments a.
DoubleGammaHrf(a) ==
    LET n == HrfLen(a.temporal_resolution)
    IN  [j \in 1 .. n |-> IF (j - 1) \in HrfLoopRange(n) THEN HrfValue(a, j - 1) ELSE 0]

(***************************************************************************)
(* convolve_hrf: the pure steps                                            *)
(***************************************************************************)
Rows(stim) == Len(stim[1])      \* stimfunction.shape[0]
Cols(stim) == Len(stim)         \* stimfunction.shape[1]

\* the module binds these names only: math, np and the two functions
ModuleNames == {"math", "np", "_double_gamma_hrf", "convolve_hrf"}

\* stimfunction.shape[0] < stimfunction.shape[1]
LooksTransposed(stim) == Rows(stim) < Cols(stim)

\* int(temporal_resolution * tr_duration)
Stride(res, tr) == (res.num * tr) \div res.den

\* int(stimfunction.shape[0] / stride), for stride # 0
Duration(rows, st) == rows \div st

\* hrf_type == 'double_gamma'
IsDoubleGamma(h) == h.kind = "str" /\ h.name = "double_gamma"

\* isinstance(hrf_type, list)
IsList(h) == h.kind = "list"

\* as SynthCallArgs, had the call set undershoot_scale to 0
SynthCallArgsNoUndershoot(res) == [DefaultArgs(res) EXCEPT !.undershoot_scale = 0]

\* the arguments of the call _double_gamma_hrf(temporal_resolution=...)
SynthCallArgs(res) == DefaultArgs(res)

\* as SuppliedHrf, had the last sample of the caller's list been dropped
SuppliedHrfShortened(h) == SubSeq(h.seq, 1, Len(h.seq) - 1)

\* hrf = hrf_type
SuppliedHrf(h) == h.seq

RECURSIVE ConvSum(_, _, _, _)
\* sum over m in 1 .. k of a[m] * v[n - m + 1], where that index is in v
ConvSum(a, v, n, k) ==
    IF k = 0 THEN 0
    ELSE ConvSum(a, v, n, k - 1)
         + (IF (n - k + 1) \in 1 .. Len(v) THEN a[k] * v[n - k + 1] ELSE 0)

\* np.convolve(a, v) in its default mode 'full', for non-empty a and v
Convolve(a, v) ==
    [n \in 1 .. (Len(a) + Len(v) - 1) |-> ConvSum(a, v, n, Len(a))]

\* s[:n]
Truncate(s, n) == SubSeq(s, 1, Min(n, Len(s)))

\* as SampleOffset, had the first sample of each TR window been taken
SampleOffsetWindowStart(st) == 0

\* the offset of the first sample taken: int(stride / 2)
SampleOffset(st) == st \div 2

\* s[start::step], for step >= 1
Strided(s, start, step) ==
    LET cnt == IF start >= Len(s) THEN 0 ELSE (Len(s) - start + step - 1) \div step
    IN  [k \in 1 .. cnt |-> s[start + (k - 1) * step + 1]]

\* signal_temp = signal_temp[:duration * stride]
\* signal_vox = signal_temp[int(stride / 2)::stride]
Downsample(signal_temp, dur, st) ==
    Strided(Truncate(signal_temp, dur * st), SampleOffset(st), st)

RECURSIVE SeqMin(_)
SeqMin(s) ==
    IF Len(s) = 1 THEN s[1]
    ELSE LET m == SeqMin(Tail(s)) IN IF s[1] < m THEN s[1] ELSE m

\* as Scale, had the vector been divided by np.min(signal_vox)
ScaleByMin(signal_vox) ==
    LET m == SeqMin(signal_vox)
    IN  [k \in 1 .. Len(signal_vox) |-> <<signal_vox[k], m>>]

\* signal_vox / np.max(signal_vox), for a non-empty signal_vox
Scale(signal_vox) ==
    LET m == SeqMax(signal_vox)
    IN  [k \in 1 .. Len(signal_vox) |-> <<signal_vox[k], m>>]

\* as Unscaled, had the vector been normalised whatever scale_function says
UnscaledNormalised(signal_vox) ==
    IF Len(signal_vox) = 0 THEN << >>
    ELSE [k \in 1 .. Len(signal_vox) |-> <<signal_vox[k], SeqMax(signal_vox)>>]

\* signal_vox stored as it is
Unscaled(signal_vox) == [k \in 1 .. Len(signal_vox) |-> <<signal_vox[k], 1>>]

\* np.zeros((rows, cols))
Zeros(rows, cols) == [c \in 1 .. cols |-> [r \in 1 .. rows |-> <<0, 1>>]]

\* as StoreColumn, had every vector been written to the first column
StoreColumnFirst(sf, c, col) == [sf EXCEPT ![1] = col]

\* signal_function[:, list_counter] = signal_vox   (c is list_counter + 1)
StoreColumn(sf, c, col) == [sf EXCEPT ![c] = col]

\* The downsampled convolution of one stimulus column.
SignalVox(col, h, dur, st) == Downsample(Convolve(col, h), dur, st)

\* One column of the result: lines 138-149.
ColumnSignal(col, h, dur, st, scale) ==
    LET signal_vox == SignalVox(col, h, dur, st)
    IN  IF scale THEN Scale(signal_vox) ELSE Unscaled(signal_vox)

\* The HRF convolve_hrf uses for hrf_type h, when h selects one: lines 126-129.
SelectedHrf(h, res) ==
    IF IsDoubleGamma(h) THEN DoubleGammaHrf(SynthCallArgs(res)) ELSE SuppliedHrf(h)

\* convolve_hrf as a function of its arguments: the exception it raises
\* ("none" when it returns) and the matrix it returns.
ConvolveOutcome(stim, tr, h, scale, res) ==
    LET st == Stride(res, tr)
        fail(e) == [raised |-> e, value |-> << >>]
    IN  IF LooksTransposed(stim) /\ "logger" \notin ModuleNames
        THEN fail("NameError")
        ELSE IF st = 0 THEN fail("ZeroDivisionError")
        ELSE IF ~(IsDoubleGamma(h) \/ IsList(h)) THEN fail("UnboundLocalError")
        ELSE IF Rows(stim) = 0 \/ Len(SelectedHrf(h, res)) = 0 THEN fail("ValueError")
        ELSE LET dur == Duration(Rows(stim), st)
                 hr == SelectedHrf(h, res)
             IN  IF scale /\ Len(SignalVox(stim[1], hr, dur, st)) = 0
                 THEN fail("ValueError")
                 ELSE [raised |-> "none",
                       value |-> [c \in 1 .. Cols(stim) |->
                                     ColumnSignal(stim[c], hr, dur, st, scale)]]

(***************************************************************************)
(* The inputs.                                                             *)
(***************************************************************************)
StimValues == {0, 1}
TrDurations == {5, 10, 20}
\* temporal resolutions 1/6, 1/10 and 1/60 samples per second ...
ConvolveResolutions ==
    {[num |-> 1, den |-> 6], [num |-> 1, den |-> 10], [num |-> 1, den |-> 60]}
\* ... and 1/8 for the synthesizer called on its own
Resolutions == ConvolveResolutions \cup {[num |-> 1, den |-> 8]}
ExplicitHrfs == {<< >>, <<2, -3>>, <<-1, -2>>}
ResponseScales == {1, 2}
UndershootScales == {35, 100}

Matrices ==
    UNION {[1 .. c -> [1 .. r -> StimValues]] : r \in 0 .. MaxRows, c \in 1 .. MaxCols}

StrType(n) == [kind |-> "str", name |-> n, seq |-> << >>]
ListType(s) == [kind |-> "list", name |-> "", seq |-> s]

HrfTypes(res) ==
    {StrType("double_gamma"), StrType("gamma")}
    \cup {ListType(s) : s \in ExplicitHrfs}
    \cup {ListType(DoubleGammaHrf(DefaultArgs(res)))}

InitLocals ==
    /\ raised = "none"
    /\ log = << >>
    /\ stride = 0
    /\ duration = 0
    /\ hrf = << >>
    /\ hrf_bound = FALSE
    /\ synth_hrf = << >>
    /\ hrf_counter = 0
    /\ hrf_writes = << >>
    /\ list_counter = 0
    /\ signal_function = << >>
    /\ signal_bound = FALSE

InitConvolve ==
    /\ call = "convolve_hrf"
    /\ stimfunction \in Matrices
    /\ tr_duration \in TrDurations
    /\ temporal_resolution \in ConvolveResolutions
    /\ hrf_type \in HrfTypes(temporal_resolution)
    /\ scale_function \in BOOLEAN
    /\ synth_args = NoArgs
    /\ pc = "check_shape"
    /\ InitLocals

InitSynth ==
    /\ call = "double_gamma_hrf"
    /\ stimfunction = << << >> >>
    /\ tr_duration = 0
    /\ temporal_resolution = NoArgs.temporal_resolution
    /\ hrf_type = StrType("double_gamma")
    /\ scale_function = TRUE
    /\ synth_args \in [response_scale : ResponseScales,
                       undershoot_scale : UndershootScales,
                       temporal_resolution : Resolutions]
    /\ pc = "synth_start"
    /\ InitLocals

Init == InitConvolve \/ InitSynth

(***************************************************************************)
(* The steps.                                                              *)
(***************************************************************************)
inputs == <<call, stimfunction, tr_duration, hrf_type, scale_function,
            temporal_resolution>>

Raise(e) == raised' = e /\ pc' = "done"

\* lines 117-119: the shape check and its warning
CheckShape ==
    /\ pc = "check_shape"
    /\ IF LooksTransposed(stimfunction)
       THEN IF "logger" \in ModuleNames
            THEN /\ log' = Append(log, "Stimfunction may be the wrong shape")
                 /\ pc' = "stride"
                 /\ UNCHANGED raised
            ELSE /\ Raise("NameError")
                 /\ UNCHANGED log
       ELSE /\ pc' = "stride"
            /\ UNCHANGED <<raised, log>>
    /\ UNCHANGED <<inputs, synth_args, stride, duration, hrf, hrf_bound,
                   synth_hrf, hrf_counter, hrf_writes, list_counter,
                   signal_function, signal_bound>>

\* lines 121-123
ComputeStride ==
    /\ pc = "stride"
    /\ stride' = Stride(temporal_resolution, tr_duration)
    /\ IF stride' = 0
       THEN /\ Raise("ZeroDivisionError")
            /\ UNCHANGED duration
       ELSE /\ duration' = Duration(Rows(stimfunction), stride')
            /\ pc' = "select_hrf"
            /\ UNCHANGED raised
    /\ UNCHANGED <<inputs, synth_args, log, hrf, hrf_bound, synth_hrf,
                   hrf_counter, hrf_writes, list_counter, signal_function,
                   signal_bound>>

\* lines 125-129
SelectHrf ==
    /\ pc = "select_hrf"
    /\ IF IsDoubleGamma(hrf_type)
       THEN /\ synth_args' = SynthCallArgs(temporal_resolution)
            /\ pc' = "synth_start"
            /\ UNCHANGED <<hrf, hrf_bound>>
       ELSE IF IsList(hrf_type)
       THEN /\ hrf' = SuppliedHrf(hrf_type)
            /\ hrf_bound' = TRUE
            /\ pc' = "columns"
            /\ UNCHANGED synth_args
       ELSE /\ pc' = "columns"
            /\ UNCHANGED <<hrf, hrf_bound, synth_args>>
    /\ UNCHANGED <<inputs, raised, log, stride, duration, synth_hrf,
                   hrf_counter, hrf_writes, list_counter, signal_function,
                   signal_bound>>

\* lines 39-46: hrf = [0] * int(hrf_length * temporal_resolution)
SynthStart ==
    /\ pc = "synth_start"
    /\ LET n == HrfLen(synth_args.temporal_resolution)
       IN  /\ synth_hrf' = [j \in 1 .. n |-> 0]
           /\ hrf_writes' = [j \in 1 .. n |-> 0]
    /\ hrf_counter' = 0
    /\ pc' = "synth_loop"
    /\ UNCHANGED <<inputs, synth_args, raised, log, stride, duration, hrf,
                   hrf_bound, list_counter, signal_function, signal_bound>>

\* lines 48-69: one iteration of the loop
SynthStep ==
    /\ pc = "synth_loop"
    /\ hrf_counter \in HrfLoopRange(Len(synth_hrf))
    /\ synth_hrf' = [synth_hrf EXCEPT ![hrf_counter + 1] = HrfValue(synth_args, hrf_counter)]
    /\ hrf_writes' = [hrf_writes EXCEPT ![hrf_counter + 1] = @ + 1]
    /\ hrf_counter' = hrf_counter + 1
    /\ UNCHANGED <<inputs, synth_args, pc, raised, log, stride, duration, hrf,
                   hrf_bound, list_counter, signal_function, signal_bound>>

\* line 71: return hrf (to convolve_hrf's line 127, or to the caller)
SynthReturn ==
    /\ pc = "synth_loop"
    /\ hrf_counter \notin HrfLoopRange(Len(synth_hrf))
    /\ IF call = "convolve_hrf"
       THEN /\ hrf' = synth_hrf
            /\ hrf_bound' = TRUE
            /\ pc' = "columns"
       ELSE /\ pc' = "done"
            /\ UNCHANGED <<hrf, hrf_bound>>
    /\ UNCHANGED <<inputs, synth_args, raised, log, stride, duration,
                   synth_hrf, hrf_counter, hrf_writes, list_counter,
                   signal_function, signal_bound>>

\* lines 135-155: one iteration of the loop over the columns
ProcessColumn ==
    /\ pc = "columns"
    /\ list_counter < Cols(stimfunction)
    /\ LET col == stimfunction[list_counter + 1]
       IN  IF ~hrf_bound
           THEN /\ Raise("UnboundLocalError")
                /\ UNCHANGED <<list_counter, signal_function, signal_bound>>
           ELSE IF Len(col) = 0 \/ Len(hrf) = 0
           THEN /\ Raise("ValueError")      \* np.convolve of an empty vector
                /\ UNCHANGED <<list_counter, signal_function, signal_bound>>
           ELSE LET signal_vox == SignalVox(col, hrf, duration, stride)
                IN  IF scale_function /\ Len(signal_vox) = 0
                    THEN /\ Raise("ValueError")   \* np.max of an empty vector
                         /\ UNCHANGED <<list_counter, signal_function, signal_bound>>
                    ELSE /\ signal_function' =
                              StoreColumn(
                                  IF list_counter = 0
                                  THEN Zeros(Len(signal_vox), Cols(stimfunction))
                                  ELSE signal_function,
                                  list_counter + 1,
                                  IF scale_function THEN Scale(signal_vox)
                                  ELSE Unscaled(signal_vox))
                         /\ signal_bound' = TRUE
                         /\ list_counter' = list_counter + 1
                         /\ UNCHANGED <<pc, raised>>
    /\ UNCHANGED <<inputs, synth_args, log, stride, duration, hrf, hrf_bound,
                   synth_hrf, hrf_counter, hrf_writes>>

\* line 157: return signal_function
Return ==
    /\ pc = "columns"
    /\ list_counter = Cols(stimfunction)
    /\ pc' = "done"
    /\ UNCHANGED <<inputs, synth_args, raised, log, stride, duration, hrf,
                   hrf_bound, synth_hrf, hrf_counter, hrf_writes, list_counter,
                   signal_function, signal_bound>>

Next ==
    \/ CheckShape
    \/ ComputeStride
    \/ SelectHrf
    \/ SynthStart
    \/ SynthStep
    \/ SynthReturn
    \/ ProcessColumn
    \/ Return

Spec == Init /\ [][Next]_vars

\* A convolve_hrf call has ended, by returning or by raising.
ConvolveDone == call = "convolve_hrf" /\ pc = "done"

\* A convolve_hrf call has returned its matrix.
ConvolveReturned == ConvolveDone /\ raised = "none"

\* hrf_type is the tag 'double_gamma' or a non-empty explicit list.
UsableHrfType ==
    IsDoubleGamma(hrf_type) \/ (IsList(hrf_type) /\ Len(hrf_type.seq) > 0)

\* The stepwise execution and the function ConvolveOutcome agree.
OutcomeAgrees ==
    ConvolveDone =>
        LET o == ConvolveOutcome(stimfunction, tr_duration, hrf_type,
                                 scale_function, temporal_resolution)
        IN  /\ o.raised = raised
            /\ raised = "none" => o.value = signal_function

IsNaN(f) == f[1] = 0 /\ f[2] = 0

AllZero(col) == \A r \in 1 .. Len(col) : col[r] = 0

(***************************************************************************)
(* C1.  Every convolve_hrf call with stride >= 1 and C >= 1 columns        *)
(* returns a matrix of exactly floor(R / stride) rows and C columns, for   *)
(* either value of scale_function, also when R < stride.                   *)
(***************************************************************************)
C1_ReturnsDurationRows ==
    (ConvolveDone /\ UsableHrfType /\ Rows(stimfunction) >= 1
        /\ Stride(temporal_resolution, tr_duration) >= 1)
    => /\ raised = "none"
       /\ Len(signal_function) = Cols(stimfunction)
       /\ \A c \in 1 .. Len(signal_function) :
              Len(signal_function[c])
                  = Rows(stimfunction) \div Stride(temporal_resolution, tr_duration)

(***************************************************************************)
(* C3.  A stimfunction with fewer rows than columns makes convolve_hrf     *)
(* emit one warning and go on: the call does not fail at the shape check.  *)
(***************************************************************************)
C3_WarnsAndContinues ==
    (call = "convolve_hrf" /\ Rows(stimfunction) >= 1
        /\ LooksTransposed(stimfunction) /\ pc # "check_shape")
    => /\ log = <<"Stimfunction may be the wrong shape">>
       /\ raised # "NameError"

(***************************************************************************)
(* C4.  With scale_function true and an all-zero stimulus column the call  *)
(* returns normally, that output column is not-a-number in every row, and  *)
(* the other output columns are what they are without the zero column.     *)
(***************************************************************************)
C4_ZeroColumnIsNaN ==
    (ConvolveDone /\ UsableHrfType /\ scale_function
        /\ Rows(stimfunction) >= 1
        /\ Stride(temporal_resolution, tr_duration) >= 1
        /\ \E c \in 1 .. Cols(stimfunction) : AllZero(stimfunction[c]))
    => /\ raised = "none"
       /\ \A c \in 1 .. Len(signal_function) :
              IF AllZero(stimfunction[c])
              THEN \A k \in 1 .. Len(signal_function[c]) : IsNaN(signal_function[c][k])
              ELSE signal_function[c]
                       = ColumnSignal(stimfunction[c], hrf, duration, stride, TRUE)

\* The value of the fraction f is exactly 1.
FracIsOne(f) == f[2] # 0 /\ f[1] = f[2]

\* some entry of the output column is not zero
SomeNonZero(out) == \E k \in 1 .. Len(out) : out[k][1] # 0

(***************************************************************************)
(* C2 as stated.  With scale_function true, every output column of a       *)
(* stimulus column that is not all-zero has maximum absolute value 1.      *)
(***************************************************************************)
C2_MaxAbsIsOne ==
    (ConvolveReturned /\ scale_function)
    => \A c \in 1 .. Cols(stimfunction) :
           ~AllZero(stimfunction[c])
           => LET out == signal_function[c]
              IN  /\ \A k \in 1 .. Len(out) :
                         out[k][2] # 0 /\ Abs(out[k][1]) <= Abs(out[k][2])
                  /\ \E k \in 1 .. Len(out) :
                         out[k][2] # 0 /\ Abs(out[k][1]) = Abs(out[k][2])

(***************************************************************************)
(* C2 as amended.  With scale_function true, every output column is the    *)
(* downsampled convolution divided by its own signed maximum m: for m > 0  *)
(* the maximum of the output column is 1, for m < 0 its minimum is 1, and  *)
(* for m = 0 every entry is non-finite.                                    *)
(***************************************************************************)
C2_SignedMaxIsOne ==
    (ConvolveReturned /\ scale_function)
    => \A c \in 1 .. Cols(stimfunction) :
           LET m == SeqMax(SignalVox(stimfunction[c], hrf, duration, stride))
               out == signal_function[c]
           IN  /\ m > 0 => /\ \E k \in 1 .. Len(out) : FracIsOne(out[k])
                           /\ \A k \in 1 .. Len(out) :
                                  out[k][2] > 0 /\ out[k][1] <= out[k][2]
               /\ m < 0 => /\ \E k \in 1 .. Len(out) : FracIsOne(out[k])
                           /\ \A k \in 1 .. Len(out) :
                                  out[k][2] < 0 /\ out[k][1] <= out[k][2]
               /\ m = 0 => \A k \in 1 .. Len(out) : out[k][2] = 0

\* a scaled column whose maximum is 1 and whose largest magnitude exceeds 1
C2_Witness ==
    /\ ConvolveReturned /\ scale_function
    /\ \E c \in 1 .. Cols(stimfunction) :
           LET out == signal_function[c]
           IN  /\ \E k \in 1 .. Len(out) : FracIsOne(out[k]) /\ out[k][2] > 0
               /\ \E k \in 1 .. Len(out) : Abs(out[k][1]) > Abs(out[k][2])

(***************************************************************************)
(* C5.  A call whose hrf_type is an explicit list equal to the             *)
(* synthesizer's output for the default shape parameters and the call's    *)
(* temporal_resolution ends as the call with hrf_type = 'double_gamma'     *)
(* ends: the same matrix, or the same exception.                           *)
(***************************************************************************)
SuppliesDefaultHrf ==
    /\ IsList(hrf_type)
    /\ hrf_type.seq = DoubleGammaHrf(DefaultArgs(temporal_resolution))

C5_ExplicitEqualsBuiltIn ==
    (ConvolveDone /\ SuppliesDefaultHrf)
    => LET o == ConvolveOutcome(stimfunction, tr_duration, StrType("double_gamma"),
                                scale_function, temporal_resolution)
       IN  /\ o.raised = raised
           /\ raised = "none" => o.value = signal_function

C5_Witness ==
    /\ ConvolveReturned /\ SuppliesDefaultHrf
    /\ \E c \in 1 .. Cols(stimfunction) : SomeNonZero(signal_function[c])

(***************************************************************************)
(* C6.  With scale_function false, doubling the values of input column c   *)
(* doubles output column c row by row.                                     *)
(***************************************************************************)
DoubleColumn(stim, c) ==
    [stim EXCEPT ![c] = [r \in 1 .. Len(stim[c]) |-> 2 * stim[c][r]]]

C6_Linear ==
    (ConvolveReturned /\ ~scale_function)
    => \A c \in 1 .. Cols(stimfunction) :
           LET o == ConvolveOutcome(DoubleColumn(stimfunction, c), tr_duration,
                                    hrf_type, scale_function, temporal_resolution)
           IN  /\ o.raised = "none"
               /\ Len(o.value[c]) = Len(signal_function[c])
               /\ \A k \in 1 .. Len(signal_function[c]) :
                      o.value[c][k]
                          = <<2 * signal_function[c][k][1], signal_function[c][k][2]>>

C6_Witness ==
    /\ ConvolveReturned /\ ~scale_function
    /\ \E c \in 1 .. Cols(stimfunction) : SomeNonZero(signal_function[c])

\* A _double_gamma_hrf call has returned: called on its own, or from line 127.
SynthReturned ==
    \/ call = "double_gamma_hrf" /\ pc = "done"
    \/ call = "convolve_hrf" /\ IsDoubleGamma(hrf_type) /\ hrf_bound

\* indices 0 .. N-2 were each written once, with response(t) - undershoot(t)
SynthBodyWritten ==
    \A i \in 0 .. (Len(synth_hrf) - 2) :
        /\ hrf_writes[i + 1] = 1
        /\ synth_hrf[i + 1] = HrfValue(synth_args, i)

(***************************************************************************)
(* C7 as stated.  The synthesizer returns exactly N = 30 *                 *)
(* temporal_resolution values; indices 0 .. N-2 are each written once      *)
(* with response(t) - undershoot(t), t = i / temporal_resolution; index    *)
(* N-1 is never written and the final value is 0.                          *)
(***************************************************************************)
C7_ExactLength ==
    SynthReturned
    => LET n == Len(synth_hrf)
           res == synth_args.temporal_resolution
       IN  /\ n * res.den = 30 * res.num
           /\ SynthBodyWritten
           /\ n >= 1
           /\ hrf_writes[n] = 0
           /\ synth_hrf[n] = 0

(***************************************************************************)
(* C7 as amended.  The synthesizer returns exactly                         *)
(* N = floor(30 * temporal_resolution) values; indices 0 .. N-2 are each   *)
(* written once with response(t) - undershoot(t); when N >= 1, index N-1   *)
(* is never written and the final value is 0 (for N = 0 the sequence is    *)
(* empty).                                                                 *)
(***************************************************************************)
C7_FloorLength ==
    SynthReturned
    => LET n == Len(synth_hrf)
           res == synth_args.temporal_resolution
       IN  /\ n = (30 * res.num) \div res.den
           /\ SynthBodyWritten
           /\ n >= 1 => hrf_writes[n] = 0 /\ synth_hrf[n] = 0

\* a returned HRF of 3 values where 30 * temporal_resolution = 3.75
C7_Witness ==
    /\ SynthReturned
    /\ synth_args.temporal_resolution = [num |-> 1, den |-> 8]
    /\ Len(synth_hrf) = 3
    /\ synth_hrf[2] # 0
    /\ synth_hrf[3] = 0

(***************************************************************************)
(* C8.  Whenever convolve_hrf is at the convolution and hrf_type is the    *)
(* tag 'double_gamma' or an explicit list, an HRF is selected and it is    *)
(* the one hrf_type designates: the synthesizer's output for the default   *)
(* shape parameters and the call's temporal_resolution, or the caller's    *)
(* list verbatim.                                                          *)
(***************************************************************************)
C8_DesignatedHrf ==
    (call = "convolve_hrf" /\ (pc = "columns" \/ signal_bound)
        /\ (IsDoubleGamma(hrf_type) \/ IsList(hrf_type)))
    => /\ hrf_bound
       /\ IsDoubleGamma(hrf_type)
              => hrf = DoubleGammaHrf(DefaultArgs(temporal_resolution))
       /\ IsList(hrf_type) => hrf = hrf_type.seq

C8_Witness ==
    /\ call = "convolve_hrf" /\ signal_bound
    /\ IsList(hrf_type) /\ Len(hrf_type.seq) = 2
    /\ hrf = hrf_type.seq

ReverseColumns(stim) == [c \in 1 .. Len(stim) |-> stim[Len(stim) + 1 - c]]

\* one iteration of the column loop leaves every other column as it was
\* (all zeros, when the iteration is the one that creates the matrix)
C10_ColumnFrame ==
    [][(pc = "columns" /\ list_counter' = list_counter + 1)
          => \A c \in 1 .. Cols(stimfunction) :
                 c # list_counter + 1
                 => signal_function'[c]
                        = IF list_counter = 0
                          THEN [k \in 1 .. Len(signal_function'[c]) |-> <<0, 1>>]
                          ELSE signal_function[c]]_vars

\* on return, column c is what the call on input column c alone returns, and
\* reversing the input columns reverses the output columns
C10_ColumnAlone ==
    ConvolveReturned
    => /\ \A c \in 1 .. Cols(stimfunction) :
              LET o == ConvolveOutcome(<<stimfunction[c]>>, tr_duration, hrf_type,
                                       scale_function, temporal_resolution)
              IN  o.raised = "none" /\ o.value[1] = signal_function[c]
       /\ LET o == ConvolveOutcome(ReverseColumns(stimfunction), tr_duration,
                                   hrf_type, scale_function, temporal_resolution)
          IN  o.raised = "none" /\ ReverseColumns(o.value) = signal_function

(***************************************************************************)
(* C10.  Processing column c writes only output column c and leaves every  *)
(* already-written column unchanged; on return output column c depends on  *)
(* input column c alone and the output columns are in the order of the     *)
(* input columns.                                                          *)
(***************************************************************************)
C10_ColumnsIndependent == C10_ColumnFrame /\ []C10_ColumnAlone

\* a returned matrix of two or more columns, the first two different
C10_Witness ==
    /\ ConvolveReturned
    /\ Cols(stimfunction) >= 2
    /\ signal_function[1] # signal_function[2]

====
